---- MODULE Spec2Model ----
(***************************************************************************)
(* Model of the transactional e-mail service (class EmailService):         *)
(* error classification, the retry decision, the retry sequence            *)
(* (sendWithRetry), the delivery orchestration (sendEmail), the audit      *)
(* append (storage.createEmailLog) and the detached oversight              *)
(* notification (notifySuperAdmin).                                        *)
(*                                                                         *)
(* JavaScript strings are sequences of one-character strings, so that      *)
(* String.prototype.includes, toLowerCase and the two regular expressions  *)
(* are computed on characters as the code computes them.                   *)
(***************************************************************************)
EXTENDS Integers, Sequences, FiniteSets, TLC

(***************************************************************************)
(* Bounds of the model.                                                    *)
(***************************************************************************)
\* an error text is the concatenation of at most MaxFrags fragments
MaxFrags == 2
\* Date.now() takes a value in 1..MaxTime
MaxTime == 2

(***************************************************************************)
(* Program constants.                                                      *)
(***************************************************************************)
\* default value of the maxRetries parameter of sendWithRetry
maxRetries == 3

(***************************************************************************)
(* Strings.                                                                *)
(***************************************************************************)
LowerOf ==
  [c \in {"A","B","C","D","E","F","G","H","I","J","K","L","M","N","O","P","Q",
          "R","S","T","U","V","W","X","Y","Z"} |->
     CASE c = "A" -> "a" [] c = "B" -> "b" [] c = "C" -> "c" [] c = "D" -> "d"
       [] c = "E" -> "e" [] c = "F" -> "f" [] c = "G" -> "g" [] c = "H" -> "h"
       [] c = "I" -> "i" [] c = "J" -> "j" [] c = "K" -> "k" [] c = "L" -> "l"
       [] c = "M" -> "m" [] c = "N" -> "n" [] c = "O" -> "o" [] c = "P" -> "p"
       [] c = "Q" -> "q" [] c = "R" -> "r" [] c = "S" -> "s" [] c = "T" -> "t"
       [] c = "U" -> "u" [] c = "V" -> "v" [] c = "W" -> "w" [] c = "X" -> "x"
       [] c = "Y" -> "y" [] c = "Z" -> "z"]

\* String.prototype.toLowerCase
toLowerCase(s) ==
  [i \in 1..Len(s) |-> IF s[i] \in DOMAIN LowerOf THEN LowerOf[s[i]] ELSE s[i]]

\* String.prototype.includes
includes(s, p) ==
  \E i \in 1..(Len(s) - Len(p) + 1) : SubSeq(s, i, i + Len(p) - 1) = p

Digits == {"0","1","2","3","4","5","6","7","8","9"}

\* the class \w of a regular expression, on a lowercased string
WordChars ==
  Digits \cup {"_"} \cup
  {"a","b","c","d","e","f","g","h","i","j","k","l","m","n","o","p","q","r",
   "s","t","u","v","w","x","y","z"}

DigitVal ==
  [d \in Digits |->
     CASE d = "0" -> 0 [] d = "1" -> 1 [] d = "2" -> 2 [] d = "3" -> 3
       [] d = "4" -> 4 [] d = "5" -> 5 [] d = "6" -> 6 [] d = "7" -> 7
       [] d = "8" -> 8 [] d = "9" -> 9]

\* the positions at which /\b(D\d\d)\b/ matches in s, D the leading digit
CodeMatches(s, lead) ==
  {i \in 1..(Len(s) - 2) :
     /\ s[i] = lead
     /\ s[i + 1] \in Digits
     /\ s[i + 2] \in Digits
     /\ (i = 1 \/ s[i - 1] \notin WordChars)
     /\ (i + 2 = Len(s) \/ s[i + 3] \notin WordChars)}

\* parseInt of the three digits matched at position i
parseInt3(s, i) ==
  100 * DigitVal[s[i]] + 10 * DigitVal[s[i + 1]] + DigitVal[s[i + 2]]

Min(S) == CHOOSE m \in S : \A n \in S : m <= n

(***************************************************************************)
(* The patterns the code searches for.                                     *)
(***************************************************************************)
p_authentication == <<"a","u","t","h","e","n","t","i","c","a","t","i","o","n">>
p_auth_failed == <<"a","u","t","h"," ","f","a","i","l","e","d">>
p_invalid_login == <<"i","n","v","a","l","i","d"," ","l","o","g","i","n">>
p_535 == <<"5","3","5">>
p_econnrefused == <<"e","c","o","n","n","r","e","f","u","s","e","d">>
p_connection_refused ==
  <<"c","o","n","n","e","c","t","i","o","n"," ","r","e","f","u","s","e","d">>
p_econnreset == <<"e","c","o","n","n","r","e","s","e","t">>
p_connection_reset ==
  <<"c","o","n","n","e","c","t","i","o","n"," ","r","e","s","e","t">>
p_socket_hang_up == <<"s","o","c","k","e","t"," ","h","a","n","g"," ","u","p">>
p_timeout == <<"t","i","m","e","o","u","t">>
p_etimedout == <<"e","t","i","m","e","d","o","u","t">>
p_tls == <<"t","l","s">>
p_ssl == <<"s","s","l">>
p_certificate == <<"c","e","r","t","i","f","i","c","a","t","e">>
p_enotfound == <<"e","n","o","t","f","o","u","n","d">>
p_getaddrinfo == <<"g","e","t","a","d","d","r","i","n","f","o">>
p_network == <<"n","e","t","w","o","r","k">>
p_temporary_failure ==
  <<"t","e","m","p","o","r","a","r","y"," ","f","a","i","l","u","r","e">>
p_connection_timeout ==
  <<"c","o","n","n","e","c","t","i","o","n"," ","t","i","m","e","o","u","t">>

retryablePatterns ==
  {p_network, p_timeout, p_econnrefused, p_econnreset, p_etimedout,
   p_temporary_failure, p_connection_timeout, p_socket_hang_up}

(***************************************************************************)
(* Raw errors: the values a transport (or a collaborator) can throw.       *)
(*   kind          "Error" | "string" | "object" | "null" | "undefined"    *)
(*   text          message of an Error, the characters of a string         *)
(*   responseCode  the number in error.responseCode, 0 when absent         *)
(*   code          error.code: [t |-> typeof, n |-> the number, or the     *)
(*                 number a string spells]; t = "undefined" when absent    *)
(***************************************************************************)
NoCode == [t |-> "undefined", n |-> 0]

MkError(kind, text, responseCode, code) ==
  [kind |-> kind, text |-> text, responseCode |-> responseCode, code |-> code]

\* String(error)
String(error) ==
  CASE error.kind = "Error" ->
         IF error.text = <<>> THEN <<"E","r","r","o","r">>
         ELSE <<"E","r","r","o","r",":"," ">> \o error.text
    [] error.kind = "string" -> error.text
    [] error.kind = "object" ->
         <<"[","o","b","j","e","c","t"," ","O","b","j","e","c","t","]">>
    [] error.kind = "null" -> <<"n","u","l","l">>
    [] error.kind = "undefined" -> <<"u","n","d","e","f","i","n","e","d">>

\* `error instanceof Error`
instanceofError(error) == error.kind = "Error"

\* reading a property of null or undefined throws a TypeError
PropertyReadThrows(error) == error.kind \in {"null", "undefined"}

\* `!error`: null, undefined and the empty string are falsy
Falsy(error) ==
  \/ error.kind \in {"null", "undefined"}
  \/ error.kind = "string" /\ error.text = <<>>

\* error.responseCode and error.code, own properties of Errors and objects
responseCodeOf(error) ==
  IF error.kind \in {"Error", "object"} THEN error.responseCode ELSE 0

codeOf(error) ==
  IF error.kind \in {"Error", "object"} THEN error.code ELSE NoCode

(***************************************************************************)
(* ErrorClassifier.                                                        *)
(***************************************************************************)
\* the value categorizeError yields when it throws instead of returning
TypeErrorThrown == "TypeError"

Categories ==
  {"AUTHENTICATION_FAILED", "CONNECTION_REFUSED", "CONNECTION_RESET",
   "SOCKET_HANG_UP", "TIMEOUT", "TLS_SSL_ERROR", "DNS_LOOKUP_FAILED",
   "NETWORK_ERROR", "SMTP_PROTOCOL_ERROR", "UNKNOWN_ERROR"}

\* the last two rules of categorizeError: `error.responseCode || match(5xx)`
categorizeProtocol(error, errorString) ==
  IF PropertyReadThrows(error) THEN TypeErrorThrown
  ELSE IF responseCodeOf(error) # 0 \/ CodeMatches(errorString, "5") # {}
       THEN "SMTP_PROTOCOL_ERROR"
       ELSE "UNKNOWN_ERROR"

\* mutant: the timeout rule is tried before the authentication rule
categorizeErrorTimeoutFirst(error) ==
  LET errorString == toLowerCase(String(error)) IN
  IF \/ includes(errorString, p_timeout)
     \/ includes(errorString, p_etimedout)
  THEN "TIMEOUT"
  ELSE IF \/ includes(errorString, p_authentication)
          \/ includes(errorString, p_auth_failed)
          \/ includes(errorString, p_invalid_login)
          \/ includes(errorString, p_535)
  THEN "AUTHENTICATION_FAILED"
  ELSE IF \/ includes(errorString, p_econnrefused)
          \/ includes(errorString, p_connection_refused)
  THEN "CONNECTION_REFUSED"
  ELSE IF \/ includes(errorString, p_econnreset)
          \/ includes(errorString, p_connection_reset)
  THEN "CONNECTION_RESET"
  ELSE IF includes(errorString, p_socket_hang_up)
  THEN "SOCKET_HANG_UP"
  ELSE IF \/ includes(errorString, p_tls)
          \/ includes(errorString, p_ssl)
          \/ includes(errorString, p_certificate)
  THEN "TLS_SSL_ERROR"
  ELSE IF \/ includes(errorString, p_enotfound)
          \/ includes(errorString, p_getaddrinfo)
  THEN "DNS_LOOKUP_FAILED"
  ELSE IF includes(errorString, p_network)
  THEN "NETWORK_ERROR"
  ELSE categorizeProtocol(error, errorString)

categorizeError(error) ==
  LET errorString == toLowerCase(String(error)) IN
  IF \/ includes(errorString, p_authentication)
     \/ includes(errorString, p_auth_failed)
     \/ includes(errorString, p_invalid_login)
     \/ includes(errorString, p_535)
  THEN "AUTHENTICATION_FAILED"
  ELSE IF \/ includes(errorString, p_econnrefused)
          \/ includes(errorString, p_connection_refused)
  THEN "CONNECTION_REFUSED"
  ELSE IF \/ includes(errorString, p_econnreset)
          \/ includes(errorString, p_connection_reset)
  THEN "CONNECTION_RESET"
  ELSE IF includes(errorString, p_socket_hang_up)
  THEN "SOCKET_HANG_UP"
  ELSE IF \/ includes(errorString, p_timeout)
          \/ includes(errorString, p_etimedout)
  THEN "TIMEOUT"
  ELSE IF \/ includes(errorString, p_tls)
          \/ includes(errorString, p_ssl)
          \/ includes(errorString, p_certificate)
  THEN "TLS_SSL_ERROR"
  ELSE IF \/ includes(errorString, p_enotfound)
          \/ includes(errorString, p_getaddrinfo)
  THEN "DNS_LOOKUP_FAILED"
  ELSE IF includes(errorString, p_network)
  THEN "NETWORK_ERROR"
  ELSE categorizeProtocol(error, errorString)

\* the first test of isRetryableError: a 4xx code in the text
retryableByText(errorString) ==
  LET smtpCodeMatch == CodeMatches(errorString, "4") IN
  /\ smtpCodeMatch # {}
  /\ LET code == parseInt3(errorString, Min(smtpCodeMatch)) IN
     code >= 400 /\ code <= 499

\* mutant: the response-code test accepts the 5xx range as well
retryableByResponseCode5xx(error) ==
  /\ responseCodeOf(error) # 0
  /\ responseCodeOf(error) >= 400
  /\ responseCodeOf(error) <= 599

\* the second test: parseInt(String(error.responseCode)) in 400..499
retryableByResponseCode(error) ==
  /\ responseCodeOf(error) # 0
  /\ responseCodeOf(error) >= 400
  /\ responseCodeOf(error) <= 499

\* the third test: a numeric error.code in 400..499
retryableByCode(error) ==
  /\ codeOf(error).t = "number"
  /\ codeOf(error).n # 0
  /\ codeOf(error).n >= 400
  /\ codeOf(error).n <= 499

\* mutant: the connection phrases count as transient substrings as well
retryableByPatternWithPhrases(errorString) ==
  \E pattern \in retryablePatterns \cup {p_connection_refused,
                                          p_connection_reset} :
    includes(errorString, pattern)

\* the last test: one of the transient substrings
retryableByPattern(errorString) ==
  \E pattern \in retryablePatterns : includes(errorString, pattern)

\* mutant: every truthy error is retried
isRetryableErrorLenient(error) == ~Falsy(error)

isRetryableError(error) ==
  IF Falsy(error) THEN FALSE
  ELSE LET errorString == toLowerCase(String(error)) IN
       \/ retryableByText(errorString)
       \/ retryableByResponseCode(error)
       \/ retryableByCode(error)
       \/ retryableByPattern(errorString)

(***************************************************************************)
(* The fragments error texts are built from, and the raw errors the        *)
(* classifier is checked on.                                               *)
(***************************************************************************)
Fragments ==
  {<<"I","n","v","a","l","i","d"," ","l","o","g","i","n">>,
   <<"a","u","t","h","e","n","t","i","c","a","t","i","o","n">>,
   <<"5","3","5">>,
   <<"E","C","O","N","N","R","E","F","U","S","E","D">>,
   <<"c","o","n","n","e","c","t","i","o","n"," ","r","e","f","u","s","e","d">>,
   <<"c","o","n","n","e","c","t","i","o","n"," ","r","e","s","e","t">>,
   <<"s","o","c","k","e","t"," ","h","a","n","g"," ","u","p">>,
   <<"t","i","m","e","o","u","t">>,
   <<"E","T","I","M","E","D","O","U","T">>,
   <<"T","L","S">>,
   <<"E","N","O","T","F","O","U","N","D">>,
   <<"n","e","t","w","o","r","k">>,
   <<"t","e","m","p","o","r","a","r","y"," ","f","a","i","l","u","r","e">>,
   <<"4","2","1">>,
   <<"5","5","0">>,
   <<"x">>,
   <<" ">>}

RECURSIVE TextsOf(_)
TextsOf(n) ==
  IF n = 0 THEN {<<>>}
  ELSE LET shorter == TextsOf(n - 1) IN
       shorter \cup {s \o f : s \in shorter, f \in Fragments}

Texts == TextsOf(MaxFrags)

ResponseCodes == {0, 250, 421, 550}

Codes ==
  {NoCode, [t |-> "number", n |-> 450], [t |-> "number", n |-> 550],
   [t |-> "string", n |-> 450]}

RawErrors ==
  {MkError("Error", text, rc, code) :
     text \in Texts, rc \in ResponseCodes, code \in Codes}
  \cup {MkError("object", <<>>, rc, code) : rc \in ResponseCodes, code \in Codes}
  \cup {MkError("string", text, 0, NoCode) : text \in Texts}
  \cup {MkError("null", <<>>, 0, NoCode), MkError("undefined", <<>>, 0, NoCode)}

(***************************************************************************)
(* State.                                                                  *)
(***************************************************************************)
VARIABLES
  raw,                \* the raw error handed to the classifier
  verdict,            \* what the classifier answered for raw
  env,                \* process.env: SMTP_HOST, SMTP_USER, SMTP_PASS
  bootEnv,            \* process.env as the constructor read it
  isDevelopmentMode,  \* EmailService.isDevelopmentMode
  transporter,        \* EmailService.transporter: "smtp" or "null"
  callers,            \* the callers that issue a deliver call
  faults,             \* the raw errors the transport can throw
  call,               \* per caller: the sendEmail invocation
  notif,              \* per caller: the detached notifySuperAdmin task
  emailLogs           \* the audit store: the records appended so far

vars ==
  <<raw, verdict, env, bootEnv, isDevelopmentMode, transporter, callers,
    faults, call, notif, emailLogs>>

classifierVars == <<raw, verdict>>

serviceVars ==
  <<env, bootEnv, isDevelopmentMode, transporter, callers, faults, call,
    notif, emailLogs>>

configVars ==
  <<env, bootEnv, isDevelopmentMode, transporter, callers, faults>>

(***************************************************************************)
(* Optional values: `x || null`.                                           *)
(***************************************************************************)
Null == [null |-> TRUE]
Str(v) == [str |-> v]
OrNull(v) == IF v = <<>> THEN Null ELSE Str(v)

(***************************************************************************)
(* Configuration (constructor).                                            *)
(***************************************************************************)
Unset == [set |-> FALSE, v |-> <<>>]
EnvValues == {Unset, [set |-> TRUE, v |-> <<>>], [set |-> TRUE, v |-> <<"smtp">>]}

Envs == [SMTP_HOST : EnvValues, SMTP_USER : EnvValues, SMTP_PASS : EnvValues]

\* a process.env entry is truthy when it is set to a non-empty string
Truthy(x) == x.set /\ x.v # <<>>

\* `${process.env.X}` in a template string
Interpolate(x) == IF x.set THEN x.v ELSE <<"undefined">>

hasSmtpConfig(e) ==
  Truthy(e.SMTP_HOST) /\ Truthy(e.SMTP_USER) /\ Truthy(e.SMTP_PASS)

(***************************************************************************)
(* getErrorDetails: a diagnostic is a string, written as the sequence of   *)
(* its constant parts followed by the characters of the error message.     *)
(***************************************************************************)
getErrorDetails(error, category) ==
  LET errorMessage == IF instanceofError(error) THEN error.text
                      ELSE String(error)
      hostPort == Interpolate(env.SMTP_HOST) \o <<":", "${SMTP_PORT}">>
  IN
  CASE category = "AUTHENTICATION_FAILED" ->
         <<"Authentication failed. Check SMTP_USER and SMTP_PASS credentials. Error: ">>
           \o errorMessage
    [] category = "CONNECTION_REFUSED" ->
         <<"Connection refused to SMTP server ">> \o hostPort
           \o <<". Verify host and port are correct.">>
    [] category = "CONNECTION_RESET" ->
         <<"Connection was reset by the SMTP server. This may indicate firewall issues or server problems.">>
    [] category = "SOCKET_HANG_UP" ->
         <<"Connection was unexpectedly closed by the server. Check server stability.">>
    [] category = "TIMEOUT" ->
         <<"Connection timed out while trying to reach ">> \o hostPort
           \o <<". Check network connectivity and firewall rules.">>
    [] category = "TLS_SSL_ERROR" ->
         <<"TLS/SSL error. Check if port ", "${SMTP_PORT}",
           " requires SSL (465) or TLS (587). Error: ">> \o errorMessage
    [] category = "DNS_LOOKUP_FAILED" ->
         <<"DNS lookup failed for ">> \o Interpolate(env.SMTP_HOST)
           \o <<". Verify the SMTP_HOST is correct.">>
    [] category = "NETWORK_ERROR" ->
         <<"Network error occurred: ">> \o errorMessage
    [] category = "SMTP_PROTOCOL_ERROR" ->
         <<"SMTP protocol error. Server response: ">> \o errorMessage
    [] OTHER -> errorMessage

(***************************************************************************)
(* Requests: the arguments of sendEmail, as the public operations build    *)
(* them or as a direct caller passes them.                                 *)
(***************************************************************************)
EmptyRecord == [k \in {} |-> 0]

sendEmailArgs(to, subject, metadata, templateType, recipientName) ==
  [to |-> to, subject |-> subject, metadata |-> metadata,
   templateType |-> templateType, recipientName |-> recipientName]

sendRegistrationApproved(to, name, eventName, username) ==
  sendEmailArgs(to, <<"Registration Approved - ", eventName>>,
                [eventName |-> eventName, username |-> username],
                "registration_approved", name)

\* mutant: sendCredentials tagged as a registration approval
sendCredentialsMistagged(to, name, eventName, username) ==
  sendEmailArgs(to, <<"Your Credentials for ", eventName>>,
                [eventName |-> eventName, username |-> username],
                "registration_approved", name)

sendCredentials(to, name, eventName, username) ==
  sendEmailArgs(to, <<"Your Credentials for ", eventName>>,
                [eventName |-> eventName, username |-> username],
                "credentials_distribution", name)

sendTestStartReminder(to, name, eventName, roundName, startTime) ==
  sendEmailArgs(to, <<"Test Starting Soon - ", roundName>>,
                [eventName |-> eventName, roundName |-> roundName,
                 startTime |-> startTime],
                "test_start_reminder", name)

sendResultPublished(to, name, eventName, score, rank) ==
  sendEmailArgs(to, <<"Results Published - ", eventName>>,
                [eventName |-> eventName, score |-> score, rank |-> rank],
                "result_published", name)

PublicRequests ==
  {sendRegistrationApproved(<<"a@x.com">>, <<"Ann">>, "5K Run", "ann1"),
   sendCredentials(<<"a@x.com">>, <<"Ann">>, "5K Run", "ann1"),
   sendTestStartReminder(<<"a@x.com">>, <<"Ann">>, "5K Run", "Round 1",
                         "2026-01-01T00:00:00.000Z"),
   sendResultPublished(<<"a@x.com">>, <<"Ann">>, "5K Run", 90, 1)}

\* sendEmail called directly: no recipient name, and metadata that is
\* absent or already carries a retryCount key
DirectRequests ==
  {sendEmailArgs(<<"b@x.com">>, <<"Hello">>, EmptyRecord, "custom", <<>>),
   sendEmailArgs(<<"b@x.com">>, <<"Hello">>,
                 [eventName |-> "5K Run", retryCount |-> 99], "custom", <<>>)}

Requests == PublicRequests \cup DirectRequests

(***************************************************************************)
(* Results of sendWithRetry.  A field a result does not carry is not in    *)
(* its domain.                                                             *)
(***************************************************************************)
NoResult == [none |-> TRUE]

\* `dev-mode-${Date.now()}`
devModeResult(now) ==
  [success |-> TRUE, messageId |-> <<"dev-mode-", now>>, retryCount |-> 0]

\* mutant: retryCount counts the attempts instead of the retries
successResultCountsAttempts(messageId, attempt) ==
  [success |-> TRUE, messageId |-> messageId, retryCount |-> attempt]

successResult(messageId, attempt) ==
  [success |-> TRUE, messageId |-> messageId, retryCount |-> attempt - 1]

\* mutant: a failure without its category
failureResultNoCategory(errorDetails, attempt, errorCategory) ==
  [success |-> FALSE, error |-> errorDetails, retryCount |-> attempt - 1]

\* mutant: retryCount counts the attempts instead of the retries
failureResultCountsAttempts(errorDetails, attempt, errorCategory) ==
  [success |-> FALSE, error |-> errorDetails, retryCount |-> attempt,
   errorCategory |-> errorCategory]

failureResult(errorDetails, attempt, errorCategory) ==
  [success |-> FALSE, error |-> errorDetails, retryCount |-> attempt - 1,
   errorCategory |-> errorCategory]

\* result.error, undefined (the empty string here) when the field is absent
errorOf(result) == IF "error" \in DOMAIN result THEN result.error ELSE <<>>

\* the message identifiers the transport hands back in info.messageId
TransportIds == {<<"smtp-", 1>>, <<"smtp-", 2>>}

\* mutant: the mode is read from process.env at every call
loggedModePerCall == ~hasSmtpConfig(env)

\* mutant: sendWithRetry without the logged-mode branch
loggedModeNeverTaken == FALSE

\* `this.isDevelopmentMode || !this.transporter`
loggedMode == isDevelopmentMode \/ transporter = "null"

\* mutant: a fixed delay of one second
delayMsFixed(attempt) == 1000

\* Math.pow(2, attempt - 1) * 1000
delayMs(attempt) == (2 ^ (attempt - 1)) * 1000

(***************************************************************************)
(* The audit record sendEmail builds.                                      *)
(***************************************************************************)
\* mutant: the caller's keys are spread after retryCount
auditMetadataCallerWins(metadata, result) ==
  [k \in DOMAIN metadata \cup {"retryCount"} |->
     IF k \in DOMAIN metadata THEN metadata[k] ELSE result.retryCount]

auditMetadata(metadata, result) ==
  [k \in DOMAIN metadata \cup {"retryCount"} |->
     IF k = "retryCount" THEN result.retryCount ELSE metadata[k]]

\* mutant: every record is written as sent
auditStatusAlwaysSent(result) == "sent"

auditStatus(result) == IF result.success THEN "sent" ELSE "failed"

emailLogRecord(c, req, result) ==
  [caller |-> c,
   recipientEmail |-> req.to,
   recipientName |-> OrNull(req.recipientName),
   subject |-> req.subject,
   templateType |-> req.templateType,
   status |-> auditStatus(result),
   metadata |-> auditMetadata(req.metadata, result),
   errorMessage |-> OrNull(errorOf(result))]

NoRecord == [none |-> TRUE]

\* mutant: the append is awaited outside any try/catch
appendFailurePropagates == TRUE

\* what the catch around `await storage.createEmailLog` makes of a failed
\* append: the failure is logged and sendEmail goes on
appendFailureRaises == FALSE

\* mutant: the notification is started whatever the outcome
notificationsScheduledAlways(result) == 1

\* mutant: one notification per transport send of a successful delivery
notificationsScheduledPerAttempt(result) ==
  IF result.success THEN result.retryCount + 1 ELSE 0

\* the number of notifySuperAdmin invocations sendEmail makes for a result
notificationsScheduled(result) == IF result.success THEN 1 ELSE 0

\* mutant: notifySuperAdmin without its try/catch
notifyFailurePropagates == TRUE

\* what the catch of notifySuperAdmin makes of a failure inside the task
notifyFailureRejects == FALSE

(***************************************************************************)
(* The directory (storage.getUsers).                                       *)
(***************************************************************************)
User(role, email) == [role |-> role, email |-> email]

Directories ==
  {<<>>,
   <<User("admin", <<"adm@x.com">>)>>,
   <<User("participant", <<"p@x.com">>), User("super_admin", <<"sa@x.com">>)>>,
   <<User("super_admin", <<>>), User("super_admin", <<"sa@x.com">>)>>}

\* superadmins.find(u => u.role === 'super_admin'): the first one, if any
findSuperAdmin(users) ==
  LET hits == {i \in 1..Len(users) : users[i].role = "super_admin"} IN
  IF hits = {} THEN Null ELSE [user |-> users[Min(hits)]]

\* `!superadmin || !superadmin.email`
noSuperAdmin(found) == found = Null \/ found.user.email = <<>>

(***************************************************************************)
(* The raw errors the transport raises in the service model.               *)
(***************************************************************************)
TransportErrors ==
  {MkError("Error", <<"4","2","1"," ","b","u","s","y">>, 421, NoCode),
   MkError("Error", <<"4","2","1"," ","t","i","m","e","o","u","t">>, 421, NoCode),
   MkError("Error", <<"4","2","1"," ","b","u","s","y">>, 0, NoCode),
   MkError("Error", <<"5","5","0"," ","n","o"," ","u","s","e","r">>, 550, NoCode),
   MkError("Error", <<"I","n","v","a","l","i","d"," ","l","o","g","i","n",":",
                      " ","5","3","5">>, 535, [t |-> "string", n |-> 0]),
   MkError("Error", <<"c","o","n","n","e","c","t","i","o","n"," ",
                      "r","e","f","u","s","e","d">>, 0, NoCode),
   MkError("Error", <<>>, 0, NoCode),
   MkError("string", <<"t","i","m","e","o","u","t">>, 0, NoCode),
   MkError("object", <<>>, 421, NoCode),
   MkError("null", <<>>, 0, NoCode),
   MkError("undefined", <<>>, 0, NoCode)}

(***************************************************************************)
(* Per-caller state.                                                       *)
(*   pc           idle | sending | sleeping | auditing | returned | raised *)
(*   req          the arguments of sendEmail                               *)
(*   attempt      the attempt parameter of the current sendWithRetry frame *)
(*   result       what sendWithRetry resolved with                         *)
(*   returned     what sendEmail resolved with                             *)
(*   sends        transporter.sendMail calls made for the primary message  *)
(*   errors       the raw errors those calls were rejected with, in order  *)
(*   info         info.messageId of the call that was fulfilled            *)
(*   sleeps       the delays slept so far, in ms                           *)
(*   appends      storage.createEmailLog calls made                        *)
(*   logRecord    the record handed to storage.createEmailLog              *)
(*   appended     how that call ended: none | ok | failed                  *)
(*   notifies     notifySuperAdmin calls made                              *)
(***************************************************************************)
IdleCall ==
  [pc |-> "idle", req |-> NoRecord, attempt |-> 0, result |-> NoResult,
   returned |-> NoResult, sends |-> 0, errors |-> <<>>, info |-> Null,
   sleeps |-> <<>>, appends |-> 0,
   logRecord |-> NoRecord, appended |-> "none", notifies |-> 0]

\* the notifySuperAdmin task
\*   pc       none | lookup | sending | done | rejected
\*   sends    transporter.sendMail calls made for the notification
\*   outcome  how the task ended: lookupFailed | noSuperAdmin | logged |
\*            sent | sendFailed
\*   error    the raw error the notification's sendMail was rejected with
IdleNotif ==
  [pc |-> "none", sends |-> 0, emailType |-> "", outcome |-> "none",
   error |-> Null]

\* mutant: the audit record is written once per transport send
AwaitAppendPerAttempt(c, cr, result) ==
  [cr EXCEPT !.pc = "auditing",
             !.result = result,
             !.appends = @ + result.retryCount + 1,
             !.logRecord = emailLogRecord(c, cr.req, result)]

\* sendEmail, from the moment sendWithRetry has resolved with result up to
\* the await of storage.createEmailLog
AwaitAppend(c, cr, result) ==
  [cr EXCEPT !.pc = "auditing",
             !.result = result,
             !.appends = @ + 1,
             !.logRecord = emailLogRecord(c, cr.req, result)]

\* sendEmail, from the end of the append (fulfilled or caught) to its return
FinishCall(c, cr, appended) ==
  /\ call' = [call EXCEPT ![c] =
                [cr EXCEPT !.pc = "returned",
                           !.returned = cr.result,
                           !.appended = appended,
                           !.notifies = @ + notificationsScheduled(cr.result)]]
  /\ notif' = IF notificationsScheduled(cr.result) > 0
              THEN [notif EXCEPT ![c] =
                      [@ EXCEPT !.pc = "lookup",
                                !.emailType = cr.req.templateType]]
              ELSE notif

(***************************************************************************)
(* Initial states.                                                         *)
(***************************************************************************)
InitService(envs, cs, fs) ==
  /\ env \in envs
  /\ bootEnv = env
  /\ isDevelopmentMode = ~hasSmtpConfig(env)
  /\ transporter = IF hasSmtpConfig(env) THEN "smtp" ELSE "null"
  /\ callers = cs
  /\ faults = fs
  /\ call = [c \in cs |-> IdleCall]
  /\ notif = [c \in cs |-> IdleNotif]
  /\ emailLogs = <<>>

NoVerdict == [none |-> TRUE]

Init ==
  /\ raw = MkError("undefined", <<>>, 0, NoCode)
  /\ verdict = NoVerdict
  /\ InitService(Envs, {1}, TransportErrors)

(***************************************************************************)
(* sendEmail and sendWithRetry.                                            *)
(***************************************************************************)
\* a caller invokes sendEmail; sendWithRetry answers at once in logged
\* mode and calls transporter.sendMail otherwise
StartCall(c, req, now) ==
  /\ call[c].pc = "idle"
  /\ LET cr == [call[c] EXCEPT !.req = req, !.attempt = 1] IN
     call' = [call EXCEPT ![c] =
                IF loggedMode
                THEN AwaitAppend(c, cr, devModeResult(now))
                ELSE [cr EXCEPT !.pc = "sending", !.sends = @ + 1]]
  /\ UNCHANGED <<classifierVars, configVars, notif, emailLogs>>

\* mutant: the notification is started before the append
SendOkNotifiesFirst(c, messageId) ==
  /\ call[c].pc = "sending"
  /\ call' = [call EXCEPT ![c] =
                AwaitAppend(c, [call[c] EXCEPT !.info = Str(messageId)],
                            successResult(messageId, call[c].attempt))]
  /\ notif' = [notif EXCEPT ![c] = [@ EXCEPT !.pc = "lookup"]]
  /\ UNCHANGED <<classifierVars, configVars, emailLogs>>

\* transporter.sendMail fulfils
SendOk(c, messageId) ==
  /\ call[c].pc = "sending"
  /\ call' = [call EXCEPT ![c] =
                AwaitAppend(c, [call[c] EXCEPT !.info = Str(messageId)],
                            successResult(messageId, call[c].attempt))]
  /\ UNCHANGED <<classifierVars, configVars, notif, emailLogs>>

\* transporter.sendMail rejects with error: the catch block of sendWithRetry
SendFail(c, error) ==
  /\ call[c].pc = "sending"
  /\ LET cr == [call[c] EXCEPT !.errors = Append(@, error)]
         errorCategory == categorizeError(error)
     IN
     call' = [call EXCEPT ![c] =
       IF errorCategory = TypeErrorThrown
       THEN [cr EXCEPT !.pc = "raised"]
       ELSE IF isRetryableError(error) /\ cr.attempt < maxRetries
       THEN [cr EXCEPT !.pc = "sleeping",
                       !.sleeps = Append(@, delayMs(cr.attempt))]
       ELSE AwaitAppend(c, cr,
              failureResult(getErrorDetails(error, errorCategory), cr.attempt,
                            errorCategory))]
  /\ UNCHANGED <<classifierVars, configVars, notif, emailLogs>>

\* mutant: the attempt counter is shared by the calls in progress
TimerFiresSharedCounter(c) ==
  /\ call[c].pc = "sleeping"
  /\ call' = [d \in DOMAIN call |->
                IF d = c
                THEN [call[d] EXCEPT !.pc = "sending", !.attempt = @ + 1,
                                     !.sends = @ + 1]
                ELSE IF call[d].pc \in {"sending", "sleeping"}
                THEN [call[d] EXCEPT !.attempt = @ + 1]
                ELSE call[d]]
  /\ UNCHANGED <<classifierVars, configVars, notif, emailLogs>>

\* mutant: every retry writes an audit record of its own
TimerFiresLogsAttempt(c) ==
  /\ call[c].pc = "sleeping"
  /\ call' = [call EXCEPT ![c] =
                [@ EXCEPT !.pc = "sending", !.attempt = @ + 1, !.sends = @ + 1,
                          !.appends = @ + 1]]
  /\ UNCHANGED <<classifierVars, configVars, notif, emailLogs>>

\* the backoff timer fires: sendWithRetry(mailOptions, maxRetries, attempt + 1)
TimerFires(c) ==
  /\ call[c].pc = "sleeping"
  /\ call' = [call EXCEPT ![c] =
                [@ EXCEPT !.pc = "sending", !.attempt = @ + 1, !.sends = @ + 1]]
  /\ UNCHANGED <<classifierVars, configVars, notif, emailLogs>>

\* storage.createEmailLog fulfils: the record is in the store
AppendOk(c) ==
  /\ call[c].pc = "auditing"
  /\ emailLogs' = Append(emailLogs, call[c].logRecord)
  /\ FinishCall(c, call[c], "ok")
  /\ UNCHANGED <<classifierVars, configVars>>

\* storage.createEmailLog rejects: no record is stored
AppendFail(c) ==
  /\ call[c].pc = "auditing"
  /\ IF appendFailureRaises
     THEN /\ call' = [call EXCEPT ![c] = [@ EXCEPT !.pc = "raised",
                                                   !.appended = "failed"]]
          /\ notif' = notif
     ELSE FinishCall(c, call[c], "failed")
  /\ UNCHANGED <<classifierVars, configVars, emailLogs>>

(***************************************************************************)
(* notifySuperAdmin, detached.                                             *)
(***************************************************************************)
NotifyFailed(c, outcome, error) ==
  notif' = [notif EXCEPT ![c] =
              [@ EXCEPT !.pc = IF notifyFailureRejects THEN "rejected"
                               ELSE "done",
                        !.outcome = outcome,
                        !.error = error]]

\* storage.getUsers fulfils with users
LookupOk(c, users) ==
  /\ notif[c].pc = "lookup"
  /\ notif' = [notif EXCEPT ![c] =
       IF noSuperAdmin(findSuperAdmin(users))
       THEN [@ EXCEPT !.pc = "done", !.outcome = "noSuperAdmin"]
       ELSE IF loggedMode
       THEN [@ EXCEPT !.pc = "done", !.outcome = "logged"]
       ELSE [@ EXCEPT !.pc = "sending", !.sends = @ + 1]]
  /\ UNCHANGED <<classifierVars, configVars, call, emailLogs>>

\* storage.getUsers rejects
LookupFail(c) ==
  /\ notif[c].pc = "lookup"
  /\ NotifyFailed(c, "lookupFailed", Null)
  /\ UNCHANGED <<classifierVars, configVars, call, emailLogs>>

\* the notification's transporter.sendMail fulfils
NotifySendOk(c) ==
  /\ notif[c].pc = "sending"
  /\ notif' = [notif EXCEPT ![c] = [@ EXCEPT !.pc = "done", !.outcome = "sent"]]
  /\ UNCHANGED <<classifierVars, configVars, call, emailLogs>>

\* mutant: the notification is sent again after a retryable failure
NotifySendFailRetries(c, error) ==
  /\ notif[c].pc = "sending"
  /\ IF isRetryableError(error) /\ notif[c].sends < maxRetries
     THEN notif' = [notif EXCEPT ![c] = [@ EXCEPT !.sends = @ + 1]]
     ELSE NotifyFailed(c, "sendFailed", error)
  /\ UNCHANGED <<classifierVars, configVars, call, emailLogs>>

\* the notification's transporter.sendMail rejects with error
NotifySendFail(c, error) ==
  /\ notif[c].pc = "sending"
  /\ NotifyFailed(c, "sendFailed", error)
  /\ UNCHANGED <<classifierVars, configVars, call, emailLogs>>

Next ==
  \/ \E c \in callers, req \in Requests, now \in 1..MaxTime :
       StartCall(c, req, now)
  \/ \E c \in callers, messageId \in TransportIds : SendOk(c, messageId)
  \/ \E c \in callers, error \in faults : SendFail(c, error)
  \/ \E c \in callers : TimerFires(c)
  \/ \E c \in callers : AppendOk(c)
  \/ \E c \in callers : AppendFail(c)
  \/ \E c \in callers, users \in Directories : LookupOk(c, users)
  \/ \E c \in callers : LookupFail(c)
  \/ \E c \in callers : NotifySendOk(c)
  \/ \E c \in callers, error \in faults : NotifySendFail(c, error)

Spec == Init /\ [][Next]_vars

(***************************************************************************)
(* The service in a process whose environment changes after construction.  *)
(***************************************************************************)
ReconfigErrors ==
  {MkError("Error", <<"4","2","1"," ","t","i","m","e","o","u","t">>, 421, NoCode),
   MkError("Error", <<"5","5","0"," ","n","o"," ","u","s","e","r">>, 550, NoCode)}

InitReconfig ==
  /\ raw = MkError("undefined", <<>>, 0, NoCode)
  /\ verdict = NoVerdict
  /\ InitService(Envs, {1}, ReconfigErrors)

\* an assignment to, or a delete of, one entry of process.env
ChangeEnv(k, v) ==
  /\ env[k] # v
  /\ env' = [env EXCEPT ![k] = v]
  /\ UNCHANGED <<classifierVars, bootEnv, isDevelopmentMode, transporter,
                 callers, faults, call, notif, emailLogs>>

NextReconfig ==
  \/ Next
  \/ \E k \in DOMAIN env, v \in EnvValues : ChangeEnv(k, v)

SpecReconfig == InitReconfig /\ [][NextReconfig]_vars

(***************************************************************************)
(* The classifier on its own: the raw error is drawn from RawErrors and    *)
(* the classifier is applied to it.                                        *)
(***************************************************************************)
NoEnv == [SMTP_HOST |-> Unset, SMTP_USER |-> Unset, SMTP_PASS |-> Unset]

InitClassify ==
  /\ raw \in RawErrors
  /\ verdict = NoVerdict
  /\ InitService({NoEnv}, {}, {})

Classify ==
  /\ verdict = NoVerdict
  /\ verdict' = [retryable |-> isRetryableError(raw),
                 category |-> categorizeError(raw)]
  /\ UNCHANGED <<raw, serviceVars>>

NextClassify == Classify

SpecClassify == InitClassify /\ [][NextClassify]_vars

(***************************************************************************)
(* The service with collaborators that answer: every transport send in     *)
(* flight completes, fulfilled or rejected, every backoff timer fires and  *)
(* every append in flight completes.                                       *)
(***************************************************************************)
SpecLive ==
  /\ Init
  /\ [][Next]_vars
  /\ WF_vars(\E c \in callers :
               \/ \E messageId \in TransportIds : SendOk(c, messageId)
               \/ \E error \in faults : SendFail(c, error))
  /\ WF_vars(\E c \in callers : TimerFires(c))
  /\ WF_vars(\E c \in callers : AppendOk(c) \/ AppendFail(c))

(***************************************************************************)
(* Two deliver calls in progress at once, in a live or a logged service.   *)
(***************************************************************************)
LiveEnv ==
  [SMTP_HOST |-> [set |-> TRUE, v |-> <<"smtp">>],
   SMTP_USER |-> [set |-> TRUE, v |-> <<"smtp">>],
   SMTP_PASS |-> [set |-> TRUE, v |-> <<"smtp">>]]

InitConcurrent ==
  /\ raw = MkError("undefined", <<>>, 0, NoCode)
  /\ verdict = NoVerdict
  /\ InitService({LiveEnv, NoEnv}, {1, 2}, ReconfigErrors)

SpecConcurrent == InitConcurrent /\ [][Next]_vars

(***************************************************************************)
(* Properties.                                                             *)
(***************************************************************************)
\* the records the audit store holds for caller c
recordsOf(c) == {i \in DOMAIN emailLogs : emailLogs[i].caller = c}

\* C1: a deliver call never raises because of the transport: whatever
\* sendMail throws, sendEmail returns a result instead of rejecting.
C1_NeverRaises == \A c \in callers : call[c].pc # "raised"

\* C2: when the audit append fails, sendEmail still returns, and it returns
\* exactly the result the retry sequence produced.
C2_AppendFailureContained ==
  \A c \in callers :
    call[c].appended = "failed" =>
      /\ call[c].pc = "returned"
      /\ call[c].returned = call[c].result

C2_Witness ==
  \E c \in callers :
    /\ call[c].appended = "failed"
    /\ call[c].pc = "returned"
    /\ ~call[c].returned.success
    /\ call[c].returned.retryCount = 2

\* C3 (as stated): once a deliver call has returned, the audit store holds
\* exactly one record for it, even when the append raised.
C3_ExactlyOneStoredRecord ==
  \A c \in callers :
    call[c].pc = "returned" => Cardinality(recordsOf(c)) = 1

\* C3 (amended): a deliver call that has returned made exactly one append
\* to the audit store, whatever the number of attempts; the store holds
\* one record for the call when that append succeeded and none when it
\* raised.
C3_ExactlyOneAppend ==
  \A c \in callers :
    /\ call[c].appends <= 1
    /\ call[c].pc \in {"auditing", "returned"} => call[c].appends = 1
    /\ call[c].pc = "returned" =>
         Cardinality(recordsOf(c)) = IF call[c].appended = "ok" THEN 1 ELSE 0

C3_Witness ==
  \E c \in callers :
    /\ call[c].pc = "returned"
    /\ call[c].sends = 3
    /\ call[c].appended = "failed"
    /\ recordsOf(c) = {}

\* C4 (as stated): the record of a deliver call has status sent iff the
\* returned result has success = true, failed iff success = false, and in
\* the failed case its errorMessage equals the returned error.
C4_RecordMatchesResult ==
  \A c \in callers :
    call[c].pc = "returned" =>
      LET r == call[c].logRecord
          v == call[c].returned
      IN /\ r.status = "sent" <=> v.success
         /\ r.status = "failed" <=> ~v.success
         /\ ~v.success => r.errorMessage = Str(v.error)
         /\ \A i \in recordsOf(c) : emailLogs[i] = r

\* C4 (amended): the status clauses as stated; in the failed case the
\* errorMessage equals the returned error when that error is a non-empty
\* string and is null when the returned error is the empty string.
C4_RecordMatchesResultOrNull ==
  \A c \in callers :
    call[c].pc = "returned" =>
      LET r == call[c].logRecord
          v == call[c].returned
      IN /\ r.status = "sent" <=> v.success
         /\ r.status = "failed" <=> ~v.success
         /\ ~v.success /\ v.error # <<>> => r.errorMessage = Str(v.error)
         /\ ~v.success /\ v.error = <<>> => r.errorMessage = Null
         /\ \A i \in recordsOf(c) : emailLogs[i] = r

C4_Witness ==
  \E c \in callers :
    /\ call[c].pc = "returned"
    /\ ~call[c].returned.success
    /\ call[c].returned.error # <<>>
    /\ \E i \in recordsOf(c) :
         /\ emailLogs[i].status = "failed"
         /\ emailLogs[i].errorMessage = Str(call[c].returned.error)

\* C5 (as stated): every deliver call, whether it ends in Success or in
\* Failure, schedules the oversight notification.
C5_AlwaysNotifies ==
  \A c \in callers : call[c].pc = "returned" => call[c].notifies >= 1

\* C5 (amended): a deliver call that ends in Success schedules the
\* oversight notification; a deliver call that ends in Failure schedules
\* none.
C5_NotifiesOnSuccessOnly ==
  \A c \in callers :
    call[c].pc = "returned" =>
      /\ call[c].returned.success => call[c].notifies >= 1 /\ notif[c].pc # "none"
      /\ ~call[c].returned.success => call[c].notifies = 0 /\ notif[c].pc = "none"

C5_Witness ==
  \E c \in callers :
    /\ call[c].pc = "returned"
    /\ call[c].returned.success
    /\ call[c].returned.retryCount > 0
    /\ call[c].notifies = 1
    /\ notif[c].pc = "lookup"

\* C6: a deliver call invokes the oversight notifier at most once, however
\* many attempts were made, and never before the retry sequence has ended.
C6_AtMostOneNotification ==
  \A c \in callers :
    /\ call[c].notifies <= 1
    /\ call[c].pc \in {"sending", "sleeping", "auditing"} =>
         call[c].notifies = 0 /\ notif[c].pc = "none"

C6_Witness ==
  \E c \in callers :
    /\ call[c].pc = "returned"
    /\ call[c].sends = 3
    /\ call[c].returned.success
    /\ call[c].notifies = 1

\* C7: sendEmail returns as soon as the retry sequence has completed: it
\* never has the result in hand while it still waits for the audit append.
C7_ReturnDoesNotWaitForAppend ==
  \A c \in callers :
    call[c].pc = "auditing" => call[c].returned # NoResult

\* C8: a failure of the oversight notification (lookup failure, no
\* super admin, failed send) never rejects the notification task, never
\* raises to the caller and leaves the returned result what it was.
C8_NotifyFailuresContained ==
  \A c \in callers :
    /\ notif[c].pc # "rejected"
    /\ notif[c].outcome \in {"lookupFailed", "noSuperAdmin", "sendFailed"} =>
         /\ notif[c].pc = "done"
         /\ call[c].pc = "returned"
         /\ call[c].returned = call[c].result
         /\ call[c].returned.success

C8_Witness ==
  \E c \in callers :
    /\ notif[c].outcome = "sendFailed"
    /\ notif[c].pc = "done"
    /\ call[c].pc = "returned"
    /\ call[c].returned.success

\* C9: in logged (development) mode every deliver call returns success
\* with a messageId that starts with dev-mode- and retryCount 0, and no
\* transport send is made, for the message or for the notification.
C9_LoggedMode ==
  \A c \in callers :
    isDevelopmentMode =>
      /\ call[c].pc \in {"idle", "auditing", "returned"}
      /\ call[c].sends = 0
      /\ notif[c].sends = 0
      /\ call[c].pc # "idle" =>
           /\ call[c].result.success
           /\ call[c].result.retryCount = 0
           /\ Len(call[c].result.messageId) = 2
           /\ call[c].result.messageId[1] = "dev-mode-"
           /\ call[c].result.messageId[2] \in 1..MaxTime
      /\ call[c].pc = "returned" => call[c].returned = call[c].result

C9_Witness ==
  \E c \in callers :
    /\ isDevelopmentMode
    /\ call[c].pc = "returned"
    /\ call[c].returned.messageId[1] = "dev-mode-"
    /\ notif[c].outcome = "logged"

\* the lowercased text of a raw error
textOf(error) == toLowerCase(String(error))

\* the text holds a three-digit number of lo..hi standing on its own
HasTextCode(error, lo, hi) ==
  LET t == textOf(error) IN
  \E i \in 1..(Len(t) - 2) :
    /\ {t[i], t[i + 1], t[i + 2]} \subseteq Digits
    /\ parseInt3(t, i) \in lo..hi
    /\ (i > 1 => t[i - 1] \notin WordChars)
    /\ (i + 2 < Len(t) => t[i + 3] \notin WordChars)

\* the error carries a responseCode or a numeric code of lo..hi
HasStructuredCode(error, lo, hi) ==
  /\ error.kind \in {"Error", "object"}
  /\ \/ error.responseCode \in lo..hi
     \/ error.code.t = "number" /\ error.code.n \in lo..hi

HasCode(error, lo, hi) ==
  HasTextCode(error, lo, hi) \/ HasStructuredCode(error, lo, hi)

\* the text matches an authentication pattern
HasAuthText(error) ==
  \E p \in {p_invalid_login, p_authentication, p_auth_failed, p_535} :
    includes(textOf(error), p)

\* the text holds one of the transient substrings
HasTransientText(error) ==
  \E p \in retryablePatterns : includes(textOf(error), p)

\* C10 (as stated): isRetryableError is true for every raw error with a
\* code in 400-499 and false for every raw error with a code in 500-599 or
\* an authentication text, whatever else the error text contains.  An
\* error that carries a code of 400-499 as well falls under the first half
\* only.
C10_RetryableByCodeClass ==
  verdict # NoVerdict =>
    /\ HasCode(raw, 400, 499) => verdict.retryable
    /\ /\ HasCode(raw, 500, 599) \/ HasAuthText(raw)
       /\ ~HasCode(raw, 400, 499)
       => ~verdict.retryable

\* C10 (amended): isRetryableError is true for every raw error with a code
\* in 400-499; it is false for every raw error with a code in 500-599 or
\* an authentication text that carries no code in 400-499 and none of the
\* transient substrings.
C10_RetryableByCodeClassUnlessTransient ==
  verdict # NoVerdict =>
    /\ HasCode(raw, 400, 499) => verdict.retryable
    /\ /\ HasCode(raw, 500, 599) \/ HasAuthText(raw)
       /\ ~HasCode(raw, 400, 499)
       /\ ~HasTransientText(raw)
       => ~verdict.retryable

C10_Witness ==
  /\ verdict # NoVerdict
  /\ raw.kind = "Error"
  /\ raw.responseCode = 550
  /\ HasTextCode(raw, 500, 599)
  /\ HasAuthText(raw)
  /\ ~verdict.retryable

\* the text matches one of the phrase rules 1-6 of categorizeError
HasPhraseText(error) ==
  \E p \in {p_authentication, p_auth_failed, p_invalid_login, p_535,
            p_econnrefused, p_connection_refused, p_econnreset,
            p_connection_reset, p_socket_hang_up, p_timeout, p_etimedout,
            p_tls, p_ssl, p_certificate, p_enotfound, p_getaddrinfo,
            p_network} :
    includes(textOf(error), p)

\* a permanent failure: a 5xx code or an authentication text, and no sign
\* of a transient failure
PermanentFailure(error) ==
  /\ HasCode(error, 500, 599) \/ HasAuthText(error)
  /\ ~HasCode(error, 400, 499)
  /\ ~HasTransientText(error)

\* a retryable failure: a 4xx code or a transient text
RetryableFailure(error) ==
  HasCode(error, 400, 499) \/ HasTransientText(error)

Last(seq) == seq[Len(seq)]

C12_RetriesThenSuccess ==
  \A c \in callers :
    call[c].info # Null =>
      /\ \A i \in DOMAIN call[c].errors : RetryableFailure(call[c].errors[i])
      /\ Len(call[c].errors) < maxRetries
      /\ call[c].sends = Len(call[c].errors) + 1
      /\ call[c].result.success
      /\ call[c].result.retryCount = Len(call[c].errors)
      /\ Str(call[c].result.messageId) = call[c].info

C12_Witness ==
  \E c \in callers :
    /\ call[c].info # Null
    /\ Len(call[c].errors) = 2
    /\ \A i \in 1..2 : call[c].errors[i].responseCode = 421
    /\ call[c].pc = "returned"
    /\ call[c].returned.success
    /\ call[c].returned.retryCount = 2

\* every send of caller c has failed with a retryable error, maxRetries times
Exhausted(c) ==
  /\ Len(call[c].errors) = maxRetries
  /\ \A i \in DOMAIN call[c].errors : RetryableFailure(call[c].errors[i])

\* what C13 says of an exhausted attempt sequence, but for the category
ExhaustedOutcome(c) ==
  /\ call[c].sends = maxRetries
  /\ call[c].pc \in {"auditing", "returned"}
  /\ ~call[c].result.success
  /\ call[c].result.retryCount = maxRetries - 1
  /\ call[c].result.errorCategory = categorizeError(Last(call[c].errors))
  /\ call[c].result.error =
       getErrorDetails(Last(call[c].errors), call[c].result.errorCategory)

\* C13 (as stated): when every send fails with a retryable error, the
\* attempt sequence stops after exactly maxRetries sends and ends in a
\* failure with retryCount maxRetries - 1 that reports the category and the
\* diagnostic of the last failed attempt, the category being the protocol
\* error for a 421 failure (one whose text matches none of the phrase rules
\* that come before the protocol rule).
C13_ExhaustedReportsLast ==
  \A c \in callers :
    /\ call[c].sends <= maxRetries
    /\ Exhausted(c) =>
         /\ ExhaustedOutcome(c)
         /\ /\ HasCode(Last(call[c].errors), 421, 421)
            /\ ~HasPhraseText(Last(call[c].errors))
            => call[c].result.errorCategory = "SMTP_PROTOCOL_ERROR"

\* C14: the sleep after the failed attempt n lasts 2^(n-1) seconds (1000 ms,
\* then twice the previous one), no sleep follows the final attempt, and
\* two retries accumulate at least 1000 ms + 2000 ms.
C14_ExponentialBackoff ==
  \A c \in callers :
    /\ \A n \in DOMAIN call[c].sleeps :
         call[c].sleeps[n] = IF n = 1 THEN 1000 ELSE 2 * call[c].sleeps[n - 1]
    /\ Len(call[c].sleeps) <= maxRetries - 1
    /\ call[c].pc = "sleeping" => Len(call[c].sleeps) = call[c].attempt
    /\ call[c].pc \notin {"idle", "sleeping"} =>
         Len(call[c].sleeps) = call[c].attempt - 1
    /\ call[c].result # NoResult /\ call[c].result.retryCount = 2 =>
         call[c].sleeps[1] + call[c].sleeps[2] >= 3000

C14_Witness ==
  \E c \in callers :
    /\ call[c].pc = "returned"
    /\ call[c].returned.success
    /\ call[c].returned.retryCount = 2
    /\ call[c].sleeps = <<1000, 2000>>

\* C15 (as stated): categorizeError is total: for every raw error, null,
\* undefined, plain strings and objects without a message included, it
\* returns one of the fixed categories instead of throwing.
C15_ClassifyTotal ==
  verdict # NoVerdict => verdict.category \in Categories

\* the rule of a category matches the raw error
RuleMatches(error, category) ==
  LET Has(ps) == \E p \in ps : includes(textOf(error), p) IN
  CASE category = "AUTHENTICATION_FAILED" -> HasAuthText(error)
    [] category = "CONNECTION_REFUSED" ->
         Has({p_econnrefused, p_connection_refused})
    [] category = "CONNECTION_RESET" ->
         Has({p_econnreset, p_connection_reset})
    [] category = "SOCKET_HANG_UP" -> Has({p_socket_hang_up})
    [] category = "TIMEOUT" -> Has({p_timeout, p_etimedout})
    [] category = "TLS_SSL_ERROR" -> Has({p_tls, p_ssl, p_certificate})
    [] category = "DNS_LOOKUP_FAILED" -> Has({p_enotfound, p_getaddrinfo})
    [] category = "NETWORK_ERROR" -> Has({p_network})
    [] category = "SMTP_PROTOCOL_ERROR" ->
         responseCodeOf(error) # 0 \/ HasTextCode(error, 500, 599)
    [] OTHER -> FALSE

\* the place of a category in the priority order of C16
PriorityOf(category) ==
  CASE category = "AUTHENTICATION_FAILED" -> 1
    [] category \in {"CONNECTION_REFUSED", "CONNECTION_RESET",
                     "SOCKET_HANG_UP"} -> 2
    [] category = "TIMEOUT" -> 3
    [] category = "TLS_SSL_ERROR" -> 4
    [] category = "DNS_LOOKUP_FAILED" -> 5
    [] category = "NETWORK_ERROR" -> 6
    [] category = "SMTP_PROTOCOL_ERROR" -> 7
    [] OTHER -> 8

MatchedRules(error) == {c \in Categories : RuleMatches(error, c)}

\* C16: when a raw error matches one or several rules of categorizeError,
\* the category is that of a matching rule, and no matching rule stands
\* earlier in the order authentication, connection refused / reset / socket
\* hang up, timeout, TLS, DNS, network, protocol code.
C16_EarliestRuleWins ==
  verdict # NoVerdict /\ MatchedRules(raw) # {} =>
    /\ verdict.category \in MatchedRules(raw)
    /\ \A c \in MatchedRules(raw) :
         PriorityOf(verdict.category) <= PriorityOf(c)

C16_Witness ==
  /\ verdict # NoVerdict
  /\ {"AUTHENTICATION_FAILED", "TIMEOUT"} \subseteq MatchedRules(raw)
  /\ verdict.category = "AUTHENTICATION_FAILED"

\* C17 (as stated): the value a public operation returns carries only the
\* fields success, messageId and error, never retryCount or errorCategory.
C17_ReturnsOnlyPublicFields ==
  \A c \in callers :
    call[c].pc = "returned" /\ call[c].req \in PublicRequests =>
      DOMAIN call[c].returned \subseteq {"success", "messageId", "error"}

\* host, username and credential secret are all set to a non-empty value
AllPresent(e) ==
  \A k \in {"SMTP_HOST", "SMTP_USER", "SMTP_PASS"} : e[k].set /\ e[k].v # <<>>

\* the result of a simulated send
IsLoggedResult(result) ==
  result.success /\ result.messageId[1] = "dev-mode-"

\* C18: the transport mode is Live exactly when host, username and
\* credential secret were all present (set to a non-empty value) at
\* construction, and whatever the configuration has become since, every
\* deliver call and every notification acts in that mode: a Live one sends
\* through the transport, a Logged one never does.
C18_ModeFixedAtConstruction ==
  /\ isDevelopmentMode <=> ~AllPresent(bootEnv)
  /\ transporter = "smtp" <=> AllPresent(bootEnv)
  /\ \A c \in callers :
       /\ call[c].pc # "idle" => (call[c].sends > 0 <=> AllPresent(bootEnv))
       /\ call[c].result # NoResult =>
            (IsLoggedResult(call[c].result) <=> ~AllPresent(bootEnv))
       /\ notif[c].sends > 0 => AllPresent(bootEnv)
       /\ notif[c].outcome = "logged" => ~AllPresent(bootEnv)

C18_Witness ==
  \E c \in callers :
    /\ ~AllPresent(bootEnv) /\ AllPresent(env)
    /\ call[c].pc = "returned" /\ IsLoggedResult(call[c].returned)
    /\ call[c].sends = 0
    /\ notif[c].outcome = "logged"

\* C19: an oversight notification makes at most one transport send: after
\* a failed send, retryable or not, it is over; it adds no record to the
\* audit store (the store holds nothing but the record of the deliver call
\* itself) and it schedules no further notification.
C19_NotificationSentAtMostOnce ==
  \A c \in callers :
    /\ notif[c].sends <= 1
    /\ notif[c].outcome = "sendFailed" =>
         notif[c].pc = "done" /\ notif[c].sends = 1
    /\ call[c].notifies <= 1
    /\ Cardinality(recordsOf(c)) <= call[c].appends
    /\ \A i \in recordsOf(c) : emailLogs[i] = call[c].logRecord

C19_Witness ==
  \E c \in callers :
    /\ notif[c].outcome = "sendFailed"
    /\ notif[c].error # Null
    /\ HasCode(notif[c].error, 400, 499)
    /\ notif[c].pc = "done"
    /\ notif[c].sends = 1
    /\ Cardinality(recordsOf(c)) = 1

\* C20: in every result of the attempt sequence, a message identifier is
\* present exactly when the outcome is a success, and an error category
\* exactly when it is a failure.
C20_IdentifierIffSuccess ==
  \A c \in callers :
    call[c].result # NoResult =>
      /\ "messageId" \in DOMAIN call[c].result <=> call[c].result.success
      /\ "errorCategory" \in DOMAIN call[c].result <=> ~call[c].result.success

C20_Witness ==
  \E c \in callers :
    /\ call[c].pc = "returned"
    /\ ~call[c].returned.success
    /\ call[c].returned.errorCategory \in Categories
    /\ "messageId" \notin DOMAIN call[c].returned

\* the templateType tag of the public operation that built a request,
\* told by the subject line the operation writes
TagOfOperation(req) ==
  CASE req.subject[1] = "Registration Approved - " -> "registration_approved"
    [] req.subject[1] = "Your Credentials for " -> "credentials_distribution"
    [] req.subject[1] = "Test Starting Soon - " -> "test_start_reminder"
    [] req.subject[1] = "Results Published - " -> "result_published"
    [] OTHER -> "custom"

\* C21: a public operation makes one deliver call and no retry of its own
\* (one result, at most one append, at most maxRetries sends, all of them
\* accounted for by the attempt sequence), the audit record of the call
\* carries the tag of the operation, and in logged mode the record of
\* sendRegistrationApproved has templateType registration_approved and
\* status sent.
C21_BuildersDeliverOnce ==
  \A c \in callers :
    call[c].req \in PublicRequests =>
      /\ call[c].appends <= 1
      /\ call[c].sends <= maxRetries
      /\ call[c].sends = call[c].attempt \/ loggedMode
      /\ Cardinality(recordsOf(c)) <= 1
      /\ call[c].logRecord # NoRecord =>
           /\ call[c].logRecord.templateType = TagOfOperation(call[c].req)
           /\ call[c].logRecord.templateType \in
                {"registration_approved", "credentials_distribution",
                 "test_start_reminder", "result_published"}
           /\ loggedMode => call[c].logRecord.status = "sent"
      /\ \A i \in recordsOf(c) : emailLogs[i] = call[c].logRecord

C21_Witness ==
  \E c \in callers :
    /\ loggedMode
    /\ call[c].pc = "returned"
    /\ TagOfOperation(call[c].req) = "registration_approved"
    /\ \E i \in recordsOf(c) :
         /\ emailLogs[i].templateType = "registration_approved"
         /\ emailLogs[i].status = "sent"

\* the transient substrings C22 lists
TransientSubstrings ==
  {<<"n","e","t","w","o","r","k">>,
   <<"t","i","m","e","o","u","t">>,
   <<"e","c","o","n","n","r","e","f","u","s","e","d">>,
   <<"e","c","o","n","n","r","e","s","e","t">>,
   <<"e","t","i","m","e","d","o","u","t">>,
   <<"t","e","m","p","o","r","a","r","y"," ","f","a","i","l","u","r","e">>,
   <<"c","o","n","n","e","c","t","i","o","n"," ","t","i","m","e","o","u","t">>,
   <<"s","o","c","k","e","t"," ","h","a","n","g"," ","u","p">>}

\* C22: isRetryableError is true exactly for the errors that carry a code
\* of 400-499 (responseCode, numeric code, or a number in the text) or
\* whose lowercased text contains one of the transient substrings; it is
\* false for every other error, a falsy one included.
C22_RetryableIff ==
  verdict # NoVerdict =>
    /\ verdict.retryable <=>
         \/ HasCode(raw, 400, 499)
         \/ \E p \in TransientSubstrings : includes(textOf(raw), p)
    /\ Falsy(raw) => ~verdict.retryable

C22_Witness ==
  /\ verdict # NoVerdict
  /\ ~verdict.retryable
  /\ includes(textOf(raw), p_connection_refused)
  /\ raw.kind = "Error"
  /\ raw.code = [t |-> "string", n |-> 450]

\* C23 (as stated): for an error that matches none of the phrase rules,
\* categorizeError returns the protocol error when the error has a code of
\* 400-599 in its responseCode or in its text, and Unknown when it has no
\* code of 400-599 at all.  Read for the errors categorizeError returns a
\* category for.
C23_ProtocolIffCodeInRange ==
  (verdict # NoVerdict /\ ~HasPhraseText(raw)
     /\ verdict.category \in Categories) =>
    /\ responseCodeOf(raw) \in 400..599 \/ HasTextCode(raw, 400, 599) =>
         verdict.category = "SMTP_PROTOCOL_ERROR"
    /\ ~HasCode(raw, 400, 599) => verdict.category = "UNKNOWN_ERROR"

\* the categories C24 calls transient
TransientCategories ==
  {"CONNECTION_REFUSED", "CONNECTION_RESET", "SOCKET_HANG_UP", "TIMEOUT",
   "NETWORK_ERROR"}

\* C24 (as stated): a failed send whose error is classified in a transient
\* category is followed by a retry while attempts remain, and a failed send
\* classified as an authentication failure never is.  The i-th failed send
\* of a call has been followed by a retry exactly when the call has slept
\* at least i times.
C24_RetryAgreesWithCategory ==
  \A c \in callers :
    \A i \in DOMAIN call[c].errors :
      LET category == categorizeError(call[c].errors[i]) IN
      /\ category \in TransientCategories /\ i < maxRetries =>
           Len(call[c].sleeps) >= i
      /\ category = "AUTHENTICATION_FAILED" => Len(call[c].sleeps) < i

\* C25: within one deliver call the append is started only when the
\* attempt sequence has its final outcome: while a send or a backoff sleep
\* of the call is pending no append has been started and the store holds
\* no record of the call, and once the append is started the call makes no
\* further transport send.
C25_AppendAfterOutcome ==
  /\ [](\A c \in callers :
          /\ call[c].pc \in {"sending", "sleeping"} =>
               call[c].appends = 0 /\ recordsOf(c) = {}
          /\ call[c].appends > 0 =>
               /\ call[c].result # NoResult
               /\ call[c].result.retryCount = call[c].attempt - 1)
  /\ [][\A c \in callers :
          call[c].appends > 0 => call'[c].sends = call[c].sends]_vars

C25_Witness ==
  \E c \in callers :
    /\ call[c].sleeps = <<1000, 2000>>
    /\ call[c].sends = maxRetries
    /\ call[c].pc = "returned"
    /\ Cardinality(recordsOf(c)) = 1

\* C27: in live mode a deliver call makes between 1 and maxRetries
\* transport sends for its message, and the retryCount of its result is the
\* number of sends minus 1, hence within 0..maxRetries - 1.
C27_SendsBounded ==
  \A c \in callers :
    ~loggedMode /\ call[c].pc # "idle" =>
      /\ call[c].sends >= 1
      /\ call[c].sends <= maxRetries
      /\ call[c].result # NoResult =>
           /\ call[c].result.retryCount = call[c].sends - 1
           /\ call[c].result.retryCount \in 0..(maxRetries - 1)

C27_Witness ==
  \E c \in callers :
    /\ ~loggedMode
    /\ call[c].pc = "returned"
    /\ ~call[c].returned.success
    /\ call[c].sends = maxRetries
    /\ call[c].returned.retryCount = maxRetries - 1

\* C29: the oversight notification of a deliver call is started only when
\* the append attempt of that call has finished, fulfilled or rejected.
C29_NotifyAfterAppend ==
  \A c \in callers :
    notif[c].pc # "none" =>
      /\ call[c].appends = 1
      /\ call[c].appended \in {"ok", "failed"}
      /\ call[c].pc = "returned"

C29_Witness ==
  \E c \in callers :
    /\ notif[c].pc = "sending"
    /\ call[c].appended = "failed"

\* C30: the retryCount in the metadata of the audit record is the
\* retryCount of the result of the same call, whatever retryCount key the
\* caller put in its metadata, and every other key of the caller's metadata
\* is in the record unchanged.
C30_MetadataRetryCount ==
  \A c \in callers :
    call[c].logRecord # NoRecord =>
      LET recorded == call[c].logRecord.metadata
          supplied == call[c].req.metadata
      IN
      /\ recorded.retryCount = call[c].result.retryCount
      /\ DOMAIN recorded = DOMAIN supplied \cup {"retryCount"}
      /\ \A k \in DOMAIN supplied \ {"retryCount"} : recorded[k] = supplied[k]
      /\ \A i \in recordsOf(c) : emailLogs[i].metadata = recorded

C30_Witness ==
  \E c \in callers :
    /\ call[c].pc = "returned"
    /\ "retryCount" \in DOMAIN call[c].req.metadata
    /\ call[c].req.metadata.retryCount = 99
    /\ call[c].returned.retryCount = 2
    /\ \E i \in recordsOf(c) :
         /\ emailLogs[i].metadata.retryCount = 2
         /\ emailLogs[i].metadata.eventName = "5K Run"

\* the result the transport outcomes of caller c's own attempts determine
OwnOutcome(c) ==
  IF loggedMode
  THEN [success |-> TRUE, messageId |-> call[c].result.messageId,
        retryCount |-> 0]
  ELSE IF call[c].info # Null
  THEN [success |-> TRUE, messageId |-> call[c].info.str,
        retryCount |-> Len(call[c].errors)]
  ELSE LET last == Last(call[c].errors) IN
       [success |-> FALSE,
        error |-> getErrorDetails(last, categorizeError(last)),
        retryCount |-> Len(call[c].errors) - 1,
        errorCategory |-> categorizeError(last)]

\* C26: concurrent deliver calls are independent: the result and the audit
\* record of each call are those its own transport outcomes determine,
\* under every interleaving with the other call, and a call that is
\* suspended in a send or a backoff sleep keeps no other call from
\* starting, completing its send or appending its record.
C26_CallsIndependent ==
  \A c \in callers :
    /\ call[c].result # NoResult =>
         /\ call[c].result = OwnOutcome(c)
         /\ call[c].logRecord = emailLogRecord(c, call[c].req, OwnOutcome(c))
         /\ IsLoggedResult(call[c].result) <=> loggedMode
    /\ \A d \in callers \ {c} :
         call[c].pc \in {"sending", "sleeping"} =>
           /\ call[d].pc = "idle" =>
                \A req \in Requests : ENABLED StartCall(d, req, 1)
           /\ call[d].pc = "sending" =>
                \A messageId \in TransportIds : ENABLED SendOk(d, messageId)
           /\ call[d].pc = "sleeping" => ENABLED TimerFires(d)
           /\ call[d].pc = "auditing" => ENABLED AppendOk(d)

C26_Witness ==
  /\ callers = {1, 2}
  /\ call[1].pc = "sleeping"
  /\ call[1].sleeps = <<1000, 2000>>
  /\ call[2].pc = "returned"
  /\ call[2].returned.success
  /\ call[2].returned.retryCount = 0
  /\ call[2].sends = 1

\* C28 (as stated): every deliver call that has started eventually returns
\* a result, when every transport send completes and every backoff timer
\* fires.
C28_EventuallyReturns ==
  (call[1].pc # "idle") ~> (call[1].pc = "returned")

====
